---- MODULE Spec2Model ----
(***************************************************************************)
(* Exam duty tracker (src/app.py): the schedule parser, the room and       *)
(* invigilator segmenter, the code extractor, the duty query and the       *)
(* /search flow, as a state machine.                                       *)
(*                                                                         *)
(* A Python str is a sequence of one-character strings.  Every regular     *)
(* expression of the source is an operator that returns what Python's      *)
(* backtracking matcher returns (leftmost match, greedy and lazy           *)
(* quantifiers tried in the matcher's order).                              *)
(***************************************************************************)
EXTENDS Naturals, Sequences, FiniteSets

VARIABLES
  pc,               \* position in the flow
  schedule_text,    \* request field 'schedule_text' (raw)
  invigilator_code, \* request field 'invigilator_code' (raw)
  lines,            \* parse_schedule: text.split('\n')
  i,                \* parse_schedule: cursor (1-based here, 0-based in Python)
  current_date,     \* parse_schedule: None (<<>>) or a one-element tuple holding the str
  current_time,     \* parse_schedule: None (<<>>) or a one-element tuple holding the str
  duties,           \* parse_schedule: the records emitted so far
  blocks,           \* history: one entry per course block handed to the segmenter
  headers,          \* history: the lines processed as Date/Time headers
  response,         \* search_duties: the JSON body returned
  arg,              \* the argument of the pure function applied
  ret               \* its return value

vars == <<pc, schedule_text, invigilator_code, lines, i, current_date,
          current_time, duties, blocks, headers, response, arg, ret>>

-----------------------------------------------------------------------------
(* Characters and character classes of Python's re for the ASCII range.    *)

Digit == {"0", "1", "2", "3", "4", "5", "6", "7", "8", "9"}

UpperSeq == <<"A", "B", "C", "D", "E", "F", "G", "H", "I", "J", "K", "L", "M",
              "N", "O", "P", "Q", "R", "S", "T", "U", "V", "W", "X", "Y", "Z">>

LowerSeq == <<"a", "b", "c", "d", "e", "f", "g", "h", "i", "j", "k", "l", "m",
              "n", "o", "p", "q", "r", "s", "t", "u", "v", "w", "x", "y", "z">>

UpperL == {UpperSeq[n] : n \in DOMAIN UpperSeq}

LowerL == {LowerSeq[n] : n \in DOMAIN LowerSeq}

Letter == UpperL \cup LowerL

\* \s
WS == {" ", "\t", "\n", "\r", "\f"}

\* \w
WordCh == Letter \cup Digit \cup {"_"}

\* printable ASCII characters in code-point order (for sorted()); the quote,
\* the backslash and the backquote are left out
Ascii == <<" ", "!", "#", "$", "%", "&", "'", "(", ")", "*", "+", ",",
           "-", ".", "/", "0", "1", "2", "3", "4", "5", "6", "7", "8", "9",
           ":", ";", "<", "=", ">", "?", "@">> \o UpperSeq \o
         <<"[", "]", "^", "_">> \o LowerSeq \o <<"{", "|", "}", "~">>

Ord(c) == CHOOSE n \in DOMAIN Ascii : Ascii[n] = c

\* s[p], or "" (in no class) outside the string
At(s, p) == IF p >= 1 /\ p <= Len(s) THEN s[p] ELSE ""

\* the least and the greatest element of a non-empty set of numbers
MinOf(S) == CHOOSE x \in S : \A y \in S : x <= y

MaxOf(S) == CHOOSE x \in S : \A y \in S : y <= x

\* s[p:] (p is 1-based)
From(s, p) == SubSeq(s, p, Len(s))

\* the first position >= p whose character is not in class C
RunEnd(s, p, C) ==
  IF p > Len(s) THEN p
  ELSE CHOOSE q \in p..(Len(s) + 1) :
         /\ q > Len(s) \/ s[q] \notin C
         /\ \A r \in p..(q - 1) : s[r] \in C

\* the literal lit occurs in s at position p
LitAt(s, p, lit) ==
  /\ p + Len(lit) - 1 <= Len(s)
  /\ \A n \in 1..Len(lit) : s[p + n - 1] = lit[n]

\* lit in s
Contains(s, lit) == \E p \in 1..(Len(s) + 1) : LitAt(s, p, lit)

\* str.upper() of one character
UpperCh(c) == IF c \in LowerL THEN UpperSeq[CHOOSE n \in 1..26 : LowerSeq[n] = c] ELSE c

\* str.upper()
ToUpper(s) == [n \in 1..Len(s) |-> UpperCh(s[n])]

\* str.strip()
Strip(s) ==
  IF \A n \in 1..Len(s) : s[n] \in WS THEN <<>>
  ELSE SubSeq(s, RunEnd(s, 1, WS), MaxOf({n \in 1..Len(s) : s[n] \notin WS}))

\* str.split('\n')
RECURSIVE Split(_, _)
\* the piece from p to the next newline at e, then the pieces after it
SplitAt(s, p, e) ==
  IF e > Len(s) THEN <<From(s, p)>>
  ELSE <<SubSeq(s, p, e - 1)>> \o Split(s, e + 1)

Split(s, p) ==
  SplitAt(s, p, CHOOSE q \in p..(Len(s) + 1) :
                  /\ q > Len(s) \/ s[q] = "\n"
                  /\ \A r \in p..(q - 1) : s[r] # "\n")

SplitLines(s) == Split(s, 1)

-----------------------------------------------------------------------------
(* extract_invigilator_codes (src/app.py 143-171).                          *)
(* Each XxxEnd(s, p) is the position after the pattern's match starting at *)
(* p, or 0 when the pattern does not match at p.                           *)

\* \d{7,}
IdNumberEnd(s, p) ==
  LET e == RunEnd(s, p, Digit) IN IF e - p >= 7 THEN e ELSE 0

\* [A-Z]{2,4}: the counts k for which s[p..p+k-1] are upper-case letters
UpperCounts(s, p) == {k \in 2..4 : \A n \in 0..(k - 1) : At(s, p + n) \in UpperL}

\* [A-Z]{2,4}-\d+   (greedy {2,4}, backtracking to the count followed by '-')
ProgramCodeCounts(s, p) ==
  {k \in UpperCounts(s, p) : At(s, p + k) = "-" /\ At(s, p + k + 1) \in Digit}

ProgramCodeEnd(s, p) ==
  IF ProgramCodeCounts(s, p) = {} THEN 0
  ELSE RunEnd(s, p + MaxOf(ProgramCodeCounts(s, p)) + 1, Digit)

\* \(\d+\)
CapacityEnd(s, p) ==
  IF At(s, p) # "(" THEN 0
  ELSE LET e == RunEnd(s, p + 1, Digit)
       IN  IF e > p + 1 /\ At(s, e) = ")" THEN e + 1 ELSE 0

\* \d{3}
ThreeDigitsEnd(s, p) ==
  IF \A n \in 0..2 : At(s, p + n) \in Digit THEN p + 3 ELSE 0

\* rest
RestEnd(s, p) == IF LitAt(s, p, <<"r", "e", "s", "t">>) THEN p + 4 ELSE 0

\* the first position >= p whose character is in class C (or Len(s) + 1)
NotRunEnd(s, p, C) ==
  IF p > Len(s) THEN p
  ELSE CHOOSE q \in p..(Len(s) + 1) :
         /\ q > Len(s) \/ s[q] \in C
         /\ \A r \in p..(q - 1) : s[r] \notin C

\* \s+
WsRunEnd(s, p) == IF At(s, p) \in WS THEN RunEnd(s, p, WS) ELSE 0

\* \d{3}\s*\([^)]+\)   (the room token of lines 84, 107 and 125)
\* \([^)]+\) at q: [^)]+ runs to the first ')' and needs one character
ParenGroupEnd(s, q, e) ==
  IF At(s, q) = "(" /\ e >= q + 2 /\ At(s, e) = ")" THEN e + 1 ELSE 0

RoomTokenEnd(s, p) ==
  IF ThreeDigitsEnd(s, p) = 0 THEN 0
  ELSE ParenGroupEnd(s, RunEnd(s, p + 3, WS),
                     NotRunEnd(s, RunEnd(s, p + 3, WS) + 1, {")"}))

\* [A-Z]{2,4}-\d+\(\d+\)   (line 106)
ProgramCapEnd(s, p) ==
  IF ProgramCodeEnd(s, p) = 0 THEN 0 ELSE CapacityEnd(s, ProgramCodeEnd(s, p))

\* \d{3}\s*\([^)]+\)[0-9\-+rest\s]*   (line 107)
RoomInfoTailEnd(s, e) ==
  IF e = 0 THEN 0
  ELSE RunEnd(s, e, Digit \cup {"-", "+", "r", "e", "s", "t"} \cup WS)

RoomInfoEnd(s, p) == RoomInfoTailEnd(s, RoomTokenEnd(s, p))

\* the patterns re.sub is called with
PatEnd(pat, s, p) ==
  CASE pat = "id"       -> IdNumberEnd(s, p)
    [] pat = "program"  -> ProgramCodeEnd(s, p)
    [] pat = "capacity" -> CapacityEnd(s, p)
    [] pat = "digits3"  -> ThreeDigitsEnd(s, p)
    [] pat = "rest"     -> RestEnd(s, p)
    [] pat = "ws"       -> WsRunEnd(s, p)
    [] pat = "progcap"  -> ProgramCapEnd(s, p)
    [] pat = "roominfo" -> RoomInfoEnd(s, p)

\* re.sub(pat, repl, s): leftmost non-overlapping matches, scanning from p
RECURSIVE SubFrom(_, _, _, _)
\* q is the start of the leftmost match at or after p (Len(s) + 1: none):
\* keep s[p..q-1], replace the match, go on after it
SubStep(pat, repl, s, p, q) ==
  IF q > Len(s) THEN From(s, p)
  ELSE SubSeq(s, p, q - 1) \o repl \o SubFrom(pat, repl, s, PatEnd(pat, s, q))

SubFrom(pat, repl, s, p) ==
  IF p > Len(s) THEN <<>>
  ELSE SubStep(pat, repl, s, p,
               CHOOSE q \in p..(Len(s) + 1) :
                 /\ q > Len(s) \/ PatEnd(pat, s, q) > q
                 /\ \A r \in p..(q - 1) : PatEnd(pat, s, r) <= r)

ReSub(pat, repl, s) == SubFrom(pat, repl, s, 1)

\* \b at position p (between s[p-1] and s[p])
WordBoundary(s, p) == (At(s, p - 1) \in WordCh) # (At(s, p) \in WordCh)

\* \b([A-Za-z]{2,4}\d{0,2})\b at p: the end of the match the matcher finds first
\* (most letters first, then most digits), 0 when there is none
CodeShapes(s, p) ==
  {kd \in (2..4) \X (0..2) :
     /\ \A n \in 0..(kd[1] - 1) : At(s, p + n) \in Letter
     /\ \A n \in 0..(kd[2] - 1) : At(s, p + kd[1] + n) \in Digit
     /\ WordBoundary(s, p + kd[1] + kd[2])}

FirstShape(cand) ==
  CHOOSE x \in cand : \A y \in cand : y[1] < x[1] \/ (y[1] = x[1] /\ y[2] <= x[2])

CodeEndOf(p, cand) ==
  IF cand = {} THEN 0 ELSE p + FirstShape(cand)[1] + FirstShape(cand)[2]

CodeEnd(s, p) == IF ~WordBoundary(s, p) THEN 0 ELSE CodeEndOf(p, CodeShapes(s, p))

\* re.findall(invig_pattern, text), scanning from p
RECURSIVE FindCodes(_, _)
\* q is the start of the leftmost match at or after p (Len(s) + 1: none)
FindCodesStep(s, q) ==
  IF q > Len(s) THEN <<>>
  ELSE <<SubSeq(s, q, CodeEnd(s, q) - 1)>> \o FindCodes(s, CodeEnd(s, q))

FindCodes(s, p) ==
  IF p > Len(s) THEN <<>>
  ELSE FindCodesStep(s, CHOOSE q \in p..(Len(s) + 1) :
                          /\ q > Len(s) \/ CodeEnd(s, q) > q
                          /\ \A r \in p..(q - 1) : CodeEnd(s, r) <= r)

\* the program abbreviations of the exclusion pattern (line 168)
ExcludedCodes ==
  { <<"B", "B", "A">>, <<"C", "S", "E">>, <<"E", "N", "G">>, <<"T", "E", "X">>,
    <<"B", "T", "E">>, <<"E", "E", "E">>, <<"C", "E", "N">>, <<"L", "L", "B">>,
    <<"J", "R", "N">>, <<"B", "F", "T">>, <<"L", "L", "M">>, <<"M", "J", "R">>,
    <<"E", "N", "F">> }

\* the exclusion test without re.IGNORECASE
IsExcludedExact(code) == code \in ExcludedCodes

\* re.match(r'^(BBA|...|ENF)$', code, re.IGNORECASE)
IsExcluded(code) == ToUpper(code) \in ExcludedCodes

\* the loop of lines 163-169 over the matched codes
\* lines 166-169 for one matched code
KeepCode(code) ==
  IF Len(code) >= 2 /\ ~IsExcluded(code) THEN <<ToUpper(code)>> ELSE <<>>

RECURSIVE ValidCodes(_)
ValidCodes(codes) ==
  IF codes = <<>> THEN <<>> ELSE KeepCode(Head(codes)) \o ValidCodes(Tail(codes))

\* lines 149-156: strip, then the five removals in order
CleanInvigText(text) ==
  ReSub("rest", <<>>,
    ReSub("digits3", <<>>,
      ReSub("capacity", <<>>,
        ReSub("program", <<>>,
          ReSub("id", <<>>, Strip(text))))))

extract_invigilator_codes(text) ==
  IF text = <<>> THEN <<>>
  ELSE ValidCodes(FindCodes(CleanInvigText(text), 1))

-----------------------------------------------------------------------------
(* parse_room_assignments (src/app.py 76-141).                              *)

\* line 81: re.sub(r'\s+', ' ', entry_text).strip()
CollapseWS(s) == Strip(ReSub("ws", <<" ">>, s))

\* \s+\d{3}\s*\( where the white space ends at u
RoomAhead(s, u) == ThreeDigitsEnd(s, u) # 0 /\ At(s, RunEnd(s, u + 3, WS)) = "("

\* the lookahead of room_pattern at t:
\* (?=\s+\d{3}\s*\(|\s+[A-Z]{2,4}-\d+|$)
RoomLookahead(s, t) ==
  \/ /\ At(s, t) \in WS
     /\ RoomAhead(s, RunEnd(s, t, WS)) \/ ProgramCodeEnd(s, RunEnd(s, t, WS)) # 0
  \/ t = Len(s) + 1
  \/ t = Len(s) /\ s[t] = "\n"

\* [A-Za-z0-9+\s]
InvigTextCh == Letter \cup Digit \cup {"+"} \cup WS

\* the ends the lazy group ([A-Z][A-Za-z0-9+\s]*?) starting at a can have
InvigTextEnds(s, a) ==
  {t \in (a + 1)..RunEnd(s, a + 1, InvigTextCh) : RoomLookahead(s, t)}

\* the match whose group 2 starts at a, given the ends ts: the lazy group
\* takes the first end
RoomMatchOf(s, p, a, ts) ==
  IF a > Len(s) \/ ts = {} THEN <<>>
  ELSE <<SubSeq(s, p, p + 2), SubSeq(s, a, MinOf(ts) - 1), MinOf(ts)>>

\* the match at p whose group 2 starts at a: [^A-Z]* has run from the room
\* token to the first upper-case letter a
RoomMatchAfter(s, p, a) == RoomMatchOf(s, p, a, InvigTextEnds(s, a))

\* room_pattern at p: <<room, invig_text, end>>, or <<>> when it does not match
RoomMatchAt(s, p) ==
  IF RoomTokenEnd(s, p) = 0 THEN <<>>
  ELSE RoomMatchAfter(s, p, NotRunEnd(s, RoomTokenEnd(s, p), UpperL))

RECURSIVE RoomMatches(_, _)
\* m is the leftmost match at or after p (<<>>: none)
RoomMatchesStep(s, m) ==
  IF m = <<>> THEN <<>> ELSE <<<<m[1], m[2]>>>> \o RoomMatches(s, m[3])

\* the match at q, the start of the leftmost match (Len(s) + 1: none)
RoomMatchFrom(s, q) == IF q > Len(s) THEN <<>> ELSE RoomMatchAt(s, q)

\* re.findall(room_pattern, entry_text), scanning from p: <<room, invig_text>> pairs
RoomMatches(s, p) ==
  IF p > Len(s) THEN <<>>
  ELSE RoomMatchesStep(s, RoomMatchFrom(s,
         CHOOSE q \in p..(Len(s) + 1) :
           /\ q > Len(s) \/ RoomMatchAt(s, q) # <<>>
           /\ \A r \in p..(q - 1) : RoomMatchAt(s, r) = <<>>))

\* re.findall(r'\b(\d{3})\b', entry_text), scanning from p
RECURSIVE RoomNumbers(_, _)
\* \b\d{3}\b matches at p
RoomNumberAt(s, p) ==
  WordBoundary(s, p) /\ ThreeDigitsEnd(s, p) # 0 /\ WordBoundary(s, p + 3)

\* q is the start of the leftmost match at or after p (Len(s) + 1: none)
RoomNumbersStep(s, q) ==
  IF q > Len(s) THEN <<>> ELSE <<SubSeq(s, q, q + 2)>> \o RoomNumbers(s, q + 3)

RoomNumbers(s, p) ==
  IF p > Len(s) THEN <<>>
  ELSE RoomNumbersStep(s, CHOOSE q \in p..(Len(s) + 1) :
                            /\ q > Len(s) \/ RoomNumberAt(s, q)
                            /\ \A r \in p..(q - 1) : ~RoomNumberAt(s, r))

\* the dict appended at lines 90, 114 and 132
Duty(date, time, course_code, course_title, room, invigilators) ==
  [date |-> date, time |-> time, course |-> course_code, title |-> course_title,
   room |-> room, invigilators |-> invigilators]

\* lines 89-97: a match is appended when codes were extracted from it
Method1Record(course_code, course_title, date, time, room, invigilators) ==
  IF invigilators # <<>>
  THEN <<Duty(date, time, course_code, course_title, room, invigilators)>>
  ELSE <<>>

\* the loop of lines 87-97 over the matches
RECURSIVE Method1Loop(_, _, _, _, _)
Method1Loop(matches, course_code, course_title, date, time) ==
  IF matches = <<>> THEN <<>>
  ELSE Method1Record(course_code, course_title, date, time, Head(matches)[1],
                     extract_invigilator_codes(Head(matches)[2]))
       \o Method1Loop(Tail(matches), course_code, course_title, date, time)

\* Method 1 (lines 83-97): explicit room(capacity)text patterns
Method1(course_code, course_title, text, date, time) ==
  Method1Loop(RoomMatches(text, 1), course_code, course_title, date, time)

\* lines 103-110: the invigilator list all rooms of Method 2 share
Method2Invigilators(text) ==
  extract_invigilator_codes(
    ReSub("id", <<>>, ReSub("roominfo", <<" ">>, ReSub("progcap", <<>>, text))))

\* lines 113-121: one record per room, all with the same list
Method2Records(course_code, course_title, date, time, rooms, invigilators) ==
  [n \in 1..Len(rooms) |->
     Duty(date, time, course_code, course_title, rooms[n], invigilators)]

\* Method 2 (lines 101-121): every 3-digit token is a room
Method2(course_code, course_title, text, date, time) ==
  Method2Records(course_code, course_title, date, time,
                 RoomNumbers(text, 1), Method2Invigilators(text))

\* lines 127-139: the room token at p, ending before e
Method3Record(course_code, course_title, text, date, time, p, e) ==
  <<Duty(date, time, course_code, course_title, SubSeq(text, p, p + 2),
         extract_invigilator_codes(From(text, e)))>>

\* the positions where re.search(r'(\d{3})\s*\([^)]+\)') can match
RoomTokenStarts(text) == {p \in 1..Len(text) : RoomTokenEnd(text, p) # 0}

\* Method 3 (lines 125-139): the first room token and the text after it
Method3(course_code, course_title, text, date, time) ==
  IF RoomTokenStarts(text) = {} THEN <<>>
  ELSE Method3Record(course_code, course_title, text, date, time,
                     MinOf(RoomTokenStarts(text)),
                     RoomTokenEnd(text, MinOf(RoomTokenStarts(text))))

\* the next method run without the test `if not duties:`
IfNotDutiesBoth(found, more) == found \o more

\* lines 100 and 124: `if not duties:` runs the next method, whose records
\* are appended to duties
IfNotDuties(found, more) == IF found = <<>> THEN found \o more ELSE found

\* the methods with the flexible Method 2 tried before Method 1
RoomDutiesFlexibleFirst(course_code, course_title, text, date, time) ==
  IfNotDuties(
    IfNotDuties(Method2(course_code, course_title, text, date, time),
                Method1(course_code, course_title, text, date, time)),
    Method3(course_code, course_title, text, date, time))

\* lines 81-141 on the cleaned text
RoomDuties(course_code, course_title, text, date, time) ==
  IfNotDuties(
    IfNotDuties(Method1(course_code, course_title, text, date, time),
                Method2(course_code, course_title, text, date, time)),
    Method3(course_code, course_title, text, date, time))

parse_room_assignments(course_code, course_title, entry_text, date, time) ==
  RoomDuties(course_code, course_title, CollapseWS(entry_text), date, time)

-----------------------------------------------------------------------------
(* parse_schedule (src/app.py 6-74): the tests made on one line.            *)

\* line 18: substrings of institutional header and footer lines
BoilerplateMarkers ==
  { <<"P", "o", "r", "t", " ", "C", "i", "t", "y", " ", "I", "n", "t", "e", "r", "n", "a", "t",
      "i", "o", "n", "a", "l", " ", "U", "n", "i", "v", "e", "r", "s", "i", "t", "y">>,
    <<"D", "e", "a", "n", ",", " ", "F", "a", "c", "u", "l", "t", "y">>,
    <<"U", "p", "d", "a", "t", "e", "d", " ", "o", "n">> }

\* line 31: substrings of table headers and separators
TableMarkers ==
  { <<"C", "o", "u", "r", "s", "e", " ", "C", "o", "d", "e">>, <<"C", "o", "u", "r", "s", "e",
      " ", "T", "i", "t", "l", "e">>, <<"P", "r", "o", "g", "r", "a", "m">>, <<"R", "o", "o",
      "m">>, <<"I", "D", " ", "N", "o">>,
    <<"I", "n", "v", "i", "g", "i", "l", "a", "t", "o", "r">>, <<"-", "-", "-">>, <<"R", "e",
        "s", "t", "=">>, <<"P", "a", "g", "e", " ", "|">> }

\* line 61: substrings that end a course block
BlockEndMarkers ==
  { <<"-", "-", "-">>, <<"C", "o", "u", "r", "s", "e", " ", "C", "o", "d", "e">>, <<"P", "o",
      "r", "t", " ", "C", "i", "t", "y", " ", "I", "n", "t", "e", "r", "n", "a", "t", "i", "o",
      "n", "a", "l">>, <<"P", "a", "g", "e", " ", "|">> }

\* any(marker in line for marker in markers)
ContainsAny(line, markers) == \E mk \in markers : Contains(line, mk)

\* line 18: not line or a boilerplate substring in line
IsBlankOrBoilerplate(line) == line = <<>> \/ ContainsAny(line, BoilerplateMarkers)

\* \d{2}/\d{2}/\d{4} at p
DateDigitsAt(s, p) ==
  /\ \A n \in {0, 1, 3, 4, 6, 7, 8, 9} : At(s, p + n) \in Digit
  /\ At(s, p + 2) = "/"
  /\ At(s, p + 5) = "/"

\* [0-9:apm\-\s()]
TimeCh == Digit \cup {":", "a", "p", "m", "-", "(", ")"} \cup WS

\* \s*([0-9:apm\-\s()]+) at p, the pattern's tail: <<start, end>> of the group,
\* or <<>>.  \s* takes the whole run of white space; when the character after
\* it is not in the class, the matcher gives one white-space character back
\* and the group is that single character.
TimeGroupAfter(s, p, v) ==
  IF At(s, v) \in TimeCh THEN <<v, RunEnd(s, v, TimeCh)>>
  ELSE IF v > p THEN <<v - 1, v>>
  ELSE <<>>

TimeGroupAt(s, p) == TimeGroupAfter(s, p, RunEnd(s, p, WS))

\* \s+Time:\s*([0-9:apm\-\s()]+) matches at t
TimeAhead(s, t) ==
  /\ At(s, t) \in WS
  /\ LitAt(s, RunEnd(s, t, WS), <<"T", "i", "m", "e", ":">>)
  /\ TimeGroupAt(s, RunEnd(s, t, WS) + 5) # <<>>

\* the ends the lazy .*? of group 1 can have when the date starts at q
DateGroupEnds(s, q) ==
  {t \in (q + 10)..NotRunEnd(s, q + 10, {"\n"}) : TimeAhead(s, t)}

\* the groups of the match: the date from q to t, the time group g
DateTimeGroups(s, q, t, g) == <<SubSeq(s, q, t - 1), SubSeq(s, g[1], g[2] - 1)>>

\* the match whose date starts at q, given the ends ts of group 1: the lazy
\* .*? takes the first end
DateTimeFrom(s, q, ts) ==
  IF ~DateDigitsAt(s, q) \/ ts = {} THEN <<>>
  ELSE DateTimeGroups(s, q, MinOf(ts), TimeGroupAt(s, RunEnd(s, MinOf(ts), WS) + 5))

\* the date/time pattern of line 23 at p: <<group 1, group 2>>, or <<>>
DateTimeAt(s, p) ==
  IF ~LitAt(s, p, <<"D", "a", "t", "e", ":">>) THEN <<>>
  ELSE DateTimeFrom(s, RunEnd(s, p + 5, WS), DateGroupEnds(s, RunEnd(s, p + 5, WS)))

\* the positions where re.search can match
DateTimeStarts(line) == {p \in 1..Len(line) : DateTimeAt(line, p) # <<>>}

\* lines 25-26: .strip() of both groups
StripGroups(m) == <<Strip(m[1]), Strip(m[2])>>

\* re.search of line 23 with the .strip() of lines 25-26:
\* <<current_date, current_time>>, or <<>> when the line is no header
DateTimeMatch(line) ==
  IF DateTimeStarts(line) = {} THEN <<>>
  ELSE StripGroups(DateTimeAt(line, MinOf(DateTimeStarts(line))))

\* line 31
IsTableHeader(line) == ContainsAny(line, TableMarkers)

\* ^[A-Z]{2,4}: the letter counts after which \s*\d{3} matches
CourseCodeCounts(s) ==
  {k \in UpperCounts(s, 1) : ThreeDigitsEnd(s, RunEnd(s, k + 1, WS)) # 0}

\* ^[A-Z]{2,4}\s*\d{3} at the start of s: the position after the three
\* digits, or 0 (the letters are tried greedily, four first)
CourseCodeEnd(s) ==
  IF CourseCodeCounts(s) = {} THEN 0
  ELSE RunEnd(s, MaxOf(CourseCodeCounts(s)) + 1, WS) + 3

\* where group 2 can start when the code ends before c: \s+ is greedy and
\* gives white space back until .+ has a character that is no newline
CourseTextStarts(line, c) ==
  {g \in (c + 1)..RunEnd(line, c, WS) : g <= Len(line) /\ line[g] # "\n"}

\* the groups, stripped (lines 38-39)
CourseMatchOf(line, c, gs) ==
  IF c = 0 \/ gs = {} THEN <<>>
  ELSE <<Strip(SubSeq(line, 1, c - 1)),
         Strip(SubSeq(line, MaxOf(gs), NotRunEnd(line, MaxOf(gs), {"\n"}) - 1))>>

\* re.match(r'^([A-Z]{2,4}\s*\d{3})\s+(.+)', line) with the .strip() of lines
\* 38-39: <<course_code, remaining_text>>, or <<>>
CourseMatch(line) ==
  CourseMatchOf(line, CourseCodeEnd(line), CourseTextStarts(line, CourseCodeEnd(line)))

\* line 57: re.match(r'^[A-Z]{2,4}\s*\d{3}\s+', next_line)
StartsCourse(line) == CourseCodeEnd(line) # 0 /\ At(line, CourseCodeEnd(line)) \in WS

\* the alternatives that end the title at t (line 42):
\* \s+[A-Z]{2,4}-\d+  or  \s+\d{3}\s*\(
TitleEndAt(s, t) ==
  /\ At(s, t) \in WS
  /\ ProgramCodeEnd(s, RunEnd(s, t, WS)) # 0 \/ RoomAhead(s, RunEnd(s, t, WS))

\* the ends the lazy ^(.*?) can have
TitleEnds(s) == {t \in 1..NotRunEnd(s, 1, {"\n"}) : TitleEndAt(s, t)}

\* remaining_text.split()[0]
FirstWord(s) == SubSeq(s, RunEnd(s, 1, WS), NotRunEnd(s, RunEnd(s, 1, WS), WS) - 1)

\* lines 42-43: the course title
CourseTitle(remaining_text) ==
  IF TitleEnds(remaining_text) # {}
  THEN Strip(SubSeq(remaining_text, 1, MinOf(TitleEnds(remaining_text)) - 1))
  ELSE IF remaining_text # <<>> THEN FirstWord(remaining_text)
  ELSE <<"U", "n", "k", "n", "o", "w", "n">>

\* a block that also ends at the table markers of line 31
EndsBlockAtTableMarker(next_line) ==
  \/ StartsCourse(next_line)
  \/ Contains(next_line, <<"D", "a", "t", "e", ":">>)
  \/ ContainsAny(next_line, BlockEndMarkers \cup TableMarkers)

\* lines 57 and 61: the line ends the block
EndsBlock(next_line) ==
  \/ StartsCourse(next_line)
  \/ Contains(next_line, <<"D", "a", "t", "e", ":">>)
  \/ ContainsAny(next_line, BlockEndMarkers)

RECURSIVE AbsorbLines(_, _, _, _)
\* lines 51-65 for the stripped line next_line at j
AbsorbStep(ls, j, full_entry, appended, next_line) ==
  IF next_line = <<>> THEN AbsorbLines(ls, j + 1, full_entry, appended)
  ELSE IF EndsBlock(next_line)
  THEN [j |-> j, full_entry |-> full_entry, appended |-> appended]
  ELSE AbsorbLines(ls, j + 1, full_entry \o <<" ">> \o next_line, appended \cup {j})

\* lines 50-65: the lines after a course line that belong to its block.
\* Returns where the scan stopped (j), the text collected and the lines appended.
AbsorbLines(ls, j, full_entry, appended) ==
  IF j > Len(ls) THEN [j |-> j, full_entry |-> full_entry, appended |-> appended]
  ELSE AbsorbStep(ls, j, full_entry, appended, Strip(ls[j]))

-----------------------------------------------------------------------------
(* find_invigilator_duties (src/app.py 173-182) and the sample of codes     *)
(* (lines 212-215).                                                         *)

\* the scan of one duty's invigilators without the break of line 181
RECURSIVE ScanAllInvigilators(_, _, _)
ScanAllInvigilators(duty, invigs, code) ==
  IF invigs = <<>> THEN <<>>
  ELSE (IF ToUpper(Head(invigs)) = code THEN <<duty>> ELSE <<>>)
       \o ScanAllInvigilators(duty, Tail(invigs), code)

\* lines 178-181: the scan of one duty's invigilators, which stops at the
\* first match: <<duty>> when the code is there, <<>> otherwise
RECURSIVE ScanInvigilators(_, _, _)
ScanInvigilators(duty, invigs, code) ==
  IF invigs = <<>> THEN <<>>
  ELSE IF ToUpper(Head(invigs)) = code THEN <<duty>>
  ELSE ScanInvigilators(duty, Tail(invigs), code)

\* lines 177-181: the loop over the duties
RECURSIVE FindLoop(_, _)
FindLoop(ds, code) ==
  IF ds = <<>> THEN <<>>
  ELSE ScanInvigilators(Head(ds), Head(ds).invigilators, code)
       \o FindLoop(Tail(ds), code)

find_invigilator_duties(ds, code) == FindLoop(ds, ToUpper(code))

\* a < b for Python str
RECURSIVE StrLess(_, _)
StrLess(a, b) ==
  IF b = <<>> THEN FALSE
  ELSE IF a = <<>> THEN TRUE
  ELSE IF Head(a) = Head(b) THEN StrLess(Tail(a), Tail(b))
  ELSE Ord(Head(a)) < Ord(Head(b))

\* sorted(list(S)) for a set of str
RECURSIVE Sorted(_)
Least(S) == CHOOSE x \in S : \A y \in S \ {x} : StrLess(x, y)

Sorted(S) == IF S = {} THEN <<>> ELSE <<Least(S)>> \o Sorted(S \ {Least(S)})

\* lines 212-214: the set of all invigilator codes of the duties
AllInvigilators(ds) ==
  UNION {{ds[n].invigilators[k] : k \in 1..Len(ds[n].invigilators)} : n \in 1..Len(ds)}

\* the slice bound of line 215
SampleSize == 20

\* line 215: sorted(list(all_invigilators))[:20]
\* the whole list, not sliced
TakeAll(seq, n) == seq

\* seq[:n]
Take(seq, n) == SubSeq(seq, 1, IF Len(seq) < n THEN Len(seq) ELSE n)

SampleCodes(ds) == Take(Sorted(AllInvigilators(ds)), SampleSize)

\* lines 226-233: one entry of the success body
FormatDuty(duty, code) ==
  [date |-> duty.date, time |-> duty.time, room |-> duty.room,
   other_invigilators |-> SelectSeq(duty.invigilators, LAMBDA x : ToUpper(x) # code)]

-----------------------------------------------------------------------------
(* The inputs the specifications draw from.                                 *)

\* lines of schedule text; a request's text is up to MaxFragments of them
\* joined by newlines
Fragments ==
  << <<"D", "a", "t", "e", ":", " ", "0", "1", "/", "0", "2", "/", "2", "0", "2", "4", " ", "T",
      "i", "m", "e", ":", " ", "(", "0", "9", ":", "0", "0", "a", "m", " ", "-", " ", "1", "2",
      ":", "0", "0", "p", "m", ")">>,
     <<"C", "S", "E", " ", "1", "0", "1", " ", "I", "n", "t", "r", "o", " ", "t", "o", " ", "C",
         "S", " ", "3", "0", "8", " ", "(", "2", "0", ")", "3", "5", "0", "9", "8", "0", "3",
         "-", "8", "2", "2", " ", "Z", "B", "S", "+", "M", "N", "J">>,
     <<"D", "a", "t", "e", ":", " ", "0", "3", "/", "0", "2", "/", "2", "0", "2", "4", " ", "T",
         "i", "m", "e", ":", " ", "x", "\n", "E", "E", "E", " ", "2", "0", "2", " ", "C", "i",
         "r", "c", "u", "i", "t", "s", " ", "4", "0", "1", " ", "(", "3", "0", ")", " ", "Q",
         "R", "S", " ", "Q", "R", "S">>,
     <<"D", "a", "t", "e", ":", " ", "0", "5", "/", "0", "2", "/", "2", "0", "2", "4", " ", "T",
         "i", "m", "e", ":", " ", "2", "p", "m">>,
     <<" ", "\n", "3", "0", "9", " ", "(", "1", "5", ")", " ", "A", "B", "C">>,
     <<"R", "e", "s", "t", "=", "3", "1", "0", " ", "(", "5", ")", " ", "X", "Y", "\n", "-", "-",
         "-">>,
     <<"-", "-", "-">>,
     <<"E", "E", "E", " ", "2", "0", "2", " ", "C", "i", "r", "c", "u", "i", "t", "s", " ", "4",
         "0", "1", " ", "(", "3", "0", ")", " ", "Q", "R", "S", " ", "Q", "R", "S">> >>

\* the fragments of the /search specification: a header, a course line and a
\* course line with more than SampleSize distinct codes
SearchFragments ==
  << <<"D", "a", "t", "e", ":", " ", "0", "1", "/", "0", "2", "/", "2", "0", "2", "4", " ", "T",
      "i", "m", "e", ":", " ", "(", "0", "9", ":", "0", "0", "a", "m", " ", "-", " ", "1", "2",
      ":", "0", "0", "p", "m", ")">>,
     <<"C", "S", "E", " ", "1", "0", "1", " ", "I", "n", "t", "r", "o", " ", "t", "o", " ", "C",
         "S", " ", "3", "0", "8", " ", "(", "2", "0", ")", "3", "5", "0", "9", "8", "0", "3",
         "-", "8", "2", "2", " ", "Z", "B", "S", "+", "M", "N", "J">>,
     <<"A", "B", "1", "0", "1", " ", "T", " ", "3", "0", "8", "(", "9", ")", " ", "A", "V", " ",
         "A", "U", " ", "A", "T", " ", "A", "S", " ", "A", "R", " ", "A", "Q", " ", "A", "P",
         " ", "A", "O", " ", "A", "N", " ", "A", "M", " ", "A", "L", " ", "A", "K", " ", "A",
         "J", " ", "A", "I", " ", "A", "H", " ", "A", "G", " ", "A", "F", " ", "A", "E", " ",
         "A", "D", " ", "A", "C", " ", "A", "B", " ", "A", "A">>,
     <<"-", "-", "-">>,
     <<" ", " ">> >>

MaxFragments == 3

\* '\n'.join(parts)
RECURSIVE JoinLines(_)
JoinLines(parts) ==
  IF parts = <<>> THEN <<>>
  ELSE IF Len(parts) = 1 THEN parts[1]
  ELSE parts[1] \o <<"\n">> \o JoinLines(Tail(parts))

\* the texts made of at most MaxFragments fragments of frags
TextsOf(frags) ==
  UNION {{JoinLines([n \in 1..k |-> frags[f[n]]]) : f \in [1..k -> DOMAIN frags]} :
           k \in 0..MaxFragments}

\* lookup codes of the parser specification
LookupCodes == { <<"z", "b", "s">>, <<>> }

\* lookup codes of the /search specification
SearchCodes == { <<" ", "z", "b", "s", " ">>, <<"M", "N", "J">>, <<"x", "y", "z">>, <<" ">> }

NoResponse == [none |-> TRUE]

-----------------------------------------------------------------------------
(* search_duties (src/app.py 188-243) and the loop of parse_schedule.       *)

\* Python's truth value of an optional str: neither None nor ''
Truthy(opt) == opt # <<>> /\ opt[1] # <<>>

\* the line the cursor is on, stripped (line 15)
CurLine == Strip(lines[i])

InLoop == pc = "parse" /\ i <= Len(lines)

\* lines 192-196: the schedule text is blank
RejectEmptyText ==
  /\ pc = "request"
  /\ Strip(schedule_text) = <<>>
  /\ schedule_text' = Strip(schedule_text)
  /\ invigilator_code' = ToUpper(Strip(invigilator_code))
  /\ response' = [error |-> [text |-> "Please provide the exam schedule text.",
                             code |-> <<>>]]
  /\ pc' = "done"
  /\ UNCHANGED <<lines, i, current_date, current_time, duties, blocks, headers, arg, ret>>

\* lines 192-199: the lookup code is blank
RejectEmptyCode ==
  /\ pc = "request"
  /\ Strip(schedule_text) # <<>>
  /\ ToUpper(Strip(invigilator_code)) = <<>>
  /\ schedule_text' = Strip(schedule_text)
  /\ invigilator_code' = ToUpper(Strip(invigilator_code))
  /\ response' = [error |-> [text |-> "Please provide an invigilator code.",
                             code |-> <<>>]]
  /\ pc' = "done"
  /\ UNCHANGED <<lines, i, current_date, current_time, duties, blocks, headers, arg, ret>>

\* lines 192-202 and 8-12: both fields are there; parse_schedule starts
StartParse ==
  /\ pc = "request"
  /\ Strip(schedule_text) # <<>>
  /\ ToUpper(Strip(invigilator_code)) # <<>>
  /\ schedule_text' = Strip(schedule_text)
  /\ invigilator_code' = ToUpper(Strip(invigilator_code))
  /\ lines' = SplitLines(Strip(schedule_text))
  /\ i' = 1
  /\ current_date' = <<>>
  /\ current_time' = <<>>
  /\ duties' = <<>>
  /\ pc' = "parse"
  /\ UNCHANGED <<blocks, headers, response, arg, ret>>

\* a course line while a date and a time are not None
IsCourseEntrySet(line) ==
  CourseMatch(line) # <<>> /\ current_date # <<>> /\ current_time # <<>>

\* line 37: a course line while a date and a time are set
IsCourseEntry(line) ==
  CourseMatch(line) # <<>> /\ Truthy(current_date) /\ Truthy(current_time)

\* the branch of the loop body (lines 18, 24, 31, 37, 71) the line takes
LineKind(line) ==
  IF IsBlankOrBoilerplate(line) THEN "boilerplate"
  ELSE IF DateTimeMatch(line) # <<>> THEN "header"
  ELSE IF IsTableHeader(line) THEN "table"
  ELSE IF IsCourseEntry(line) THEN "course"
  ELSE "other"

\* lines 18-20: an empty line or institutional boilerplate
SkipBoilerplate ==
  /\ InLoop
  /\ LineKind(CurLine) = "boilerplate"
  /\ i' = i + 1
  /\ UNCHANGED <<pc, schedule_text, invigilator_code, lines, current_date, current_time,
                 duties, blocks, headers, response, arg, ret>>

\* a context that only the first header sets
SetContextOnce(m) ==
  IF current_date = <<>> THEN current_date' = <<m[1]>> /\ current_time' = <<m[2]>>
  ELSE UNCHANGED <<current_date, current_time>>

\* lines 25-26
SetContext(m) == current_date' = <<m[1]>> /\ current_time' = <<m[2]>>

\* lines 23-28: a Date/Time header sets the context
DateTimeHeader ==
  /\ InLoop
  /\ LineKind(CurLine) = "header"
  /\ SetContext(DateTimeMatch(CurLine))
  /\ headers' = Append(headers, i)
  /\ i' = i + 1
  /\ UNCHANGED <<pc, schedule_text, invigilator_code, lines, duties, blocks, response,
                 arg, ret>>

\* lines 31-33: a table header or separator
SkipTableHeader ==
  /\ InLoop
  /\ LineKind(CurLine) = "table"
  /\ i' = i + 1
  /\ UNCHANGED <<pc, schedule_text, invigilator_code, lines, current_date, current_time,
                 duties, blocks, headers, response, arg, ret>>

\* lines 69-70: the block's records are appended and the cursor moves to
\* the line that ended the block
EmitDuties(block, room_duties) ==
  /\ duties' = duties \o room_duties
  /\ i' = block.j
  /\ blocks' = Append(blocks,
       [start |-> i, stop |-> block.j, appended |-> block.appended,
        first |-> Len(duties) + 1, count |-> Len(room_duties),
        date |-> current_date, time |-> current_time])

\* line 68
SegmentBlock(course_code, course_title, block) ==
  EmitDuties(block, parse_room_assignments(course_code, course_title, block.full_entry,
                                           current_date[1], current_time[1]))

\* lines 38-68 for the groups m of the course match
AssembleBlock(m) ==
  SegmentBlock(m[1], CourseTitle(m[2]), AbsorbLines(lines, i + 1, m[2], {}))

\* lines 36-70: a course entry: its block is assembled and segmented
CourseEntry ==
  /\ InLoop
  /\ LineKind(CurLine) = "course"
  /\ AssembleBlock(CourseMatch(CurLine))
  /\ UNCHANGED <<pc, schedule_text, invigilator_code, lines, current_date, current_time,
                 headers, response, arg, ret>>

\* lines 71-72: any other line
SkipOther ==
  /\ InLoop
  /\ LineKind(CurLine) = "other"
  /\ i' = i + 1
  /\ UNCHANGED <<pc, schedule_text, invigilator_code, lines, current_date, current_time,
                 duties, blocks, headers, response, arg, ret>>

\* lines 14 and 74: the loop ends and parse_schedule returns duties
ParseReturn ==
  /\ pc = "parse"
  /\ i > Len(lines)
  /\ pc' = "parsed"
  /\ UNCHANGED <<schedule_text, invigilator_code, lines, i, current_date, current_time,
                 duties, blocks, headers, response, arg, ret>>

\* lines 204-205: nothing was parsed
RespondNoDuties ==
  /\ pc = "parsed"
  /\ duties = <<>>
  /\ response' = [error |-> [text |-> "No duties could be parsed from the text. Please check the format.",
                             code |-> <<>>]]
  /\ pc' = "done"
  /\ UNCHANGED <<schedule_text, invigilator_code, lines, i, current_date, current_time,
                 duties, blocks, headers, arg, ret>>

\* lines 208-220: no duty of the code; the sample of codes goes with the error
RespondNoMatch ==
  /\ pc = "parsed"
  /\ duties # <<>>
  /\ find_invigilator_duties(duties, invigilator_code) = <<>>
  /\ response' = [error |-> [text |-> "No duties found for invigilator",
                             code |-> invigilator_code],
                  sample_codes |-> SampleCodes(duties)]
  /\ pc' = "done"
  /\ UNCHANGED <<schedule_text, invigilator_code, lines, i, current_date, current_time,
                 duties, blocks, headers, arg, ret>>

\* lines 223-240: the success body
SuccessBody(invig_duties, code) ==
  [success |-> TRUE,
   invigilator |-> code,
   total_duties |-> Len(invig_duties),
   duties |-> [n \in 1..Len(invig_duties) |-> FormatDuty(invig_duties[n], code)]]

\* lines 208-240: the duties of the code
RespondSuccess ==
  /\ pc = "parsed"
  /\ duties # <<>>
  /\ find_invigilator_duties(duties, invigilator_code) # <<>>
  /\ response' = SuccessBody(find_invigilator_duties(duties, invigilator_code),
                             invigilator_code)
  /\ pc' = "done"
  /\ UNCHANGED <<schedule_text, invigilator_code, lines, i, current_date, current_time,
                 duties, blocks, headers, arg, ret>>

Next ==
  \/ RejectEmptyText
  \/ RejectEmptyCode
  \/ StartParse
  \/ SkipBoilerplate
  \/ DateTimeHeader
  \/ SkipTableHeader
  \/ CourseEntry
  \/ SkipOther
  \/ ParseReturn
  \/ RespondNoDuties
  \/ RespondNoMatch
  \/ RespondSuccess

\* a request whose text is made of frags and whose code is one of codes
InitRequest(frags, codes) ==
  /\ pc = "request"
  /\ schedule_text \in TextsOf(frags)
  /\ invigilator_code \in codes
  /\ lines = <<>>
  /\ i = 0
  /\ current_date = <<>>
  /\ current_time = <<>>
  /\ duties = <<>>
  /\ blocks = <<>>
  /\ headers = <<>>
  /\ response = NoResponse
  /\ arg = <<>>
  /\ ret = <<>>

Init == InitRequest(Fragments, LookupCodes)

\* the parser on schedule texts
Spec == Init /\ [][Next]_vars

InitSearch == InitRequest(SearchFragments, SearchCodes)

\* the /search flow on texts that overflow the sample of codes
SpecSearch == InitSearch /\ [][Next]_vars

-----------------------------------------------------------------------------
(* The pure functions on inputs drawn from bounded sets.                    *)

\* every str over alphabet of length at most n
StringsUpTo(alphabet, n) == UNION {[1..k -> alphabet] : k \in 0..n}

ExtractAlphabet == {"E", "e", "1", " ", "-"}

MaxExtractLen == 6

\* ' '.join(parts)
RECURSIVE JoinSpaces(_)
JoinSpaces(parts) ==
  IF parts = <<>> THEN <<>>
  ELSE IF Len(parts) = 1 THEN parts[1]
  ELSE parts[1] \o <<" ">> \o JoinSpaces(Tail(parts))

\* pieces of course-block text; a block is up to MaxTokens of them joined by spaces
BlockTokens ==
  << <<"3", "0", "8", " ", "(", "2", "0", ")">>, <<"3", "0", "9", "\t", "(", "1", "5", ")">>,
      <<"Z", "B", "S">>, <<"C", "S", "E">>, <<"3", "5", "0", "9", "8", "0", "3", "-", "8", "2",
      "2">>, <<"1", "3", "0", "8", " ", "(", "2", "0", ")">>,
     <<"Z", "B", "S", "+", "M", "N", "J">>, <<"E", "E", "E", "-", "1", "2", "(", "3", ")">>,
         <<"C", "S", "E", " ", "3", "0", "9", "\t", "(", "1", "5", ")">> >>

MaxTokens == 3

BlockTexts ==
  UNION {{JoinSpaces([n \in 1..k |-> BlockTokens[f[n]]]) : f \in [1..k -> DOMAIN BlockTokens]} :
           k \in 0..MaxTokens}

\* the other arguments of parse_room_assignments
BlockCourse == <<"C", "S", "E", " ", "1", "0", "1">>

BlockTitle == <<"I", "n", "t", "r", "o">>

BlockDate == <<"0", "1", "/", "0", "2", "/", "2", "0", "2", "4">>

BlockTime == <<"2", "p", "m">>

\* invigilator lists of the records find_invigilator_duties is applied to
InvigilatorLists ==
  << << <<"Z", "B", "S">>, <<"M", "N", "J">> >>, << <<"z", "b", "s">>, <<"Z", "B", "S">> >>,
      << <<"M", "N", "J">> >>, << >> >>

\* the record with the n-th list; its room tells the records apart
PoolDuty(n) ==
  Duty(BlockDate, BlockTime, BlockCourse, BlockTitle, <<"3", "0", Ascii[16 + n]>>,
       InvigilatorLists[n])

MaxRecords == 3

DutyLists == UNION {[1..k -> {PoolDuty(n) : n \in DOMAIN InvigilatorLists}] : k \in 0..MaxRecords}

FindCodesAsked == { <<"z", "b", "s">>, <<"Z", "B", "S">>, <<"M", "n", "j">>, <<"X", "Y">> }

\* every variable of the /search flow at rest
FlowIdle ==
  /\ schedule_text = <<>>
  /\ invigilator_code = <<>>
  /\ lines = <<>>
  /\ i = 0
  /\ current_date = <<>>
  /\ current_time = <<>>
  /\ duties = <<>>
  /\ blocks = <<>>
  /\ headers = <<>>
  /\ response = NoResponse

flow == <<schedule_text, invigilator_code, lines, i, current_date, current_time,
          duties, blocks, headers, response>>

InitExtract ==
  /\ pc = "extract"
  /\ arg \in StringsUpTo(ExtractAlphabet, MaxExtractLen)
  /\ ret = <<>>
  /\ FlowIdle

\* a call of extract_invigilator_codes(text)
ExtractCall ==
  /\ pc = "extract"
  /\ ret' = extract_invigilator_codes(arg)
  /\ pc' = "returned"
  /\ UNCHANGED <<arg, flow>>

\* extract_invigilator_codes on every short text
SpecExtract == InitExtract /\ [][ExtractCall]_vars

InitSegment ==
  /\ pc = "segment"
  /\ arg \in BlockTexts
  /\ ret = <<>>
  /\ FlowIdle

\* a call of parse_room_assignments(course_code, course_title, entry_text, date, time)
SegmentCall ==
  /\ pc = "segment"
  /\ ret' = parse_room_assignments(BlockCourse, BlockTitle, arg, BlockDate, BlockTime)
  /\ pc' = "returned"
  /\ UNCHANGED <<arg, flow>>

\* parse_room_assignments on blocks of tokens
SpecSegment == InitSegment /\ [][SegmentCall]_vars

InitFind ==
  /\ pc = "find"
  /\ arg \in [duties : DutyLists, code : FindCodesAsked]
  /\ ret = <<>>
  /\ FlowIdle

\* a call of find_invigilator_duties(duties, code)
FindCall ==
  /\ pc = "find"
  /\ ret' = find_invigilator_duties(arg.duties, arg.code)
  /\ pc' = "returned"
  /\ UNCHANGED <<arg, flow>>

\* find_invigilator_duties on lists of records
SpecFind == InitFind /\ [][FindCall]_vars

-----------------------------------------------------------------------------
(* The properties.                                                          *)

\* parse_schedule was called and has returned
Parsed == pc = "parsed" \/ (pc = "done" /\ lines # <<>>)

\* the two-line text of the end-to-end scenario
ScenarioText == JoinLines(<<Fragments[1], Fragments[2]>>)

\* C1: the two-line text of the scenario parses to exactly one record, with
\* date 01/02/2024, time (09:00am - 12:00pm), course CSE 101, room 308 and
\* invigilators ZBS, MNJ in that order; the token 822 gives no record.
C1_ScenarioOneRecord ==
  (Parsed /\ schedule_text = ScenarioText) =>
    /\ Len(duties) = 1
    /\ duties[1].date = <<"0", "1", "/", "0", "2", "/", "2", "0", "2", "4">>
    /\ duties[1].time = <<"(", "0", "9", ":", "0", "0", "a", "m", " ", "-", " ", "1", "2", ":",
        "0", "0", "p", "m", ")">>
    /\ duties[1].course = <<"C", "S", "E", " ", "1", "0", "1">>
    /\ duties[1].room = <<"3", "0", "8">>
    /\ duties[1].invigilators = << <<"Z", "B", "S">>, <<"M", "N", "J">> >>

\* the scenario's text has been parsed, to one record
C1_ScenarioParsed ==
  pc = "parsed" /\ schedule_text = ScenarioText /\ Len(duties) = 1

\* the line at k, stripped as the loops strip it
LineAt(k) == Strip(lines[k])

\* the header the loop processed last before line k (0: none)
HeaderBefore(k) ==
  IF {h \in 1..Len(headers) : headers[h] < k} = {} THEN 0
  ELSE headers[MaxOf({h \in 1..Len(headers) : headers[h] < k})]

\* C2: in every record parse_schedule holds, course, date, time and room are
\* non-empty, and every block was segmented while the current date and the
\* current time were both set and non-empty.
C2_FieldsNonEmpty ==
  /\ \A n \in 1..Len(duties) :
       /\ duties[n].course # <<>>
       /\ duties[n].date # <<>>
       /\ duties[n].time # <<>>
       /\ duties[n].room # <<>>
  /\ \A b \in 1..Len(blocks) : Truthy(blocks[b].date) /\ Truthy(blocks[b].time)

\* records were emitted, and a course line came under a header whose time
\* is empty
C2_CourseUnderEmptyTime ==
  /\ pc = "parsed"
  /\ duties # <<>>
  /\ \E k \in 1..Len(lines) :
       /\ CourseMatch(LineAt(k)) # <<>>
       /\ HeaderBefore(k) # 0
       /\ DateTimeMatch(LineAt(HeaderBefore(k)))[2] = <<>>

\* the cleaned block text parse_room_assignments works on
BlockText == CollapseWS(arg)

\* the text that follows the room token at p, up to the next room token
OwnText(text, p) ==
  SubSeq(text, RoomTokenEnd(text, p),
         MinOf({q \in RoomTokenStarts(text) \cup {Len(text) + 1} : q > p}) - 1)

\* the records of ret for the room of the token at p
RecordsOfRoom(text, p) == {n \in 1..Len(ret) : ret[n].room = SubSeq(text, p, p + 2)}

\* the room of the token at p is the room of no other token
RoomOnce(text, p) ==
  \A q \in RoomTokenStarts(text) : SubSeq(text, q, q + 2) = SubSeq(text, p, p + 2) => q = p

\* C3: every room token of a block after which no code can be recovered has
\* exactly one record in the result, with an empty invigilator list, whether
\* or not other rooms of the block have codes.
C3_RoomWithoutCodesKept ==
  pc = "returned" =>
    \A p \in RoomTokenStarts(BlockText) :
      (RoomOnce(BlockText, p) /\ extract_invigilator_codes(OwnText(BlockText, p)) = <<>>) =>
        /\ Cardinality(RecordsOfRoom(BlockText, p)) = 1
        /\ \A n \in RecordsOfRoom(BlockText, p) : ret[n].invigilators = <<>>

\* what each method finds in the cleaned block text
StrategyA == Method1(BlockCourse, BlockTitle, BlockText, BlockDate, BlockTime)

StrategyB == Method2(BlockCourse, BlockTitle, BlockText, BlockDate, BlockTime)

StrategyC == Method3(BlockCourse, BlockTitle, BlockText, BlockDate, BlockTime)

\* C4: the result of parse_room_assignments is the records of the first of
\* Method 1, Method 2, Method 3 that finds any, and of that method alone; it
\* is empty only when all three find nothing.
C4_FirstStrategyAlone ==
  pc = "returned" =>
    ret = IF StrategyA # <<>> THEN StrategyA
          ELSE IF StrategyB # <<>> THEN StrategyB
          ELSE StrategyC

\* Method 1 finds records and Method 2 would find others
C4_StrategiesDisagree ==
  /\ pc = "returned"
  /\ StrategyA # <<>>
  /\ StrategyB # <<>>
  /\ StrategyB # StrategyA
  /\ ret = StrategyA

\* the code is in the record's invigilator list, compared without case
ListsCode(duty, code) ==
  \E k \in 1..Len(duty.invigilators) : ToUpper(duty.invigilators[k]) = ToUpper(code)

\* C5: find_invigilator_duties returns the records that list the code, compared
\* without case, in input order, each once however often it lists the code.
C5_MatchingSubsequence ==
  pc = "returned" =>
    ret = SelectSeq(arg.duties, LAMBDA duty : ListsCode(duty, arg.code))

\* a record lists the code twice, another does not list it
C5_CodeListedTwice ==
  /\ pc = "returned"
  /\ ret # <<>>
  /\ \E n \in 1..Len(arg.duties) :
       Cardinality({k \in 1..Len(arg.duties[n].invigilators) :
                      ToUpper(arg.duties[n].invigilators[k]) = ToUpper(arg.code)}) = 2
  /\ \E n \in 1..Len(arg.duties) : ~ListsCode(arg.duties[n], arg.code)

\* the program abbreviations that are no invigilator codes
ProgramAbbreviations ==
  { <<"B", "B", "A">>, <<"C", "S", "E">>, <<"E", "N", "G">>, <<"T", "E", "X">>, <<"B", "T",
      "E">>, <<"E", "E", "E">>, <<"C", "E", "N">>, <<"L", "L", "B">>, <<"J", "R", "N">>,
    <<"B", "F", "T">>, <<"L", "L", "M">>, <<"M", "J", "R">>, <<"E", "N", "F">> }

\* C6: no code extract_invigilator_codes returns is, compared without case, a
\* program abbreviation of the exclusion set, and every returned code is
\* upper-case.
C6_NoExcludedCode ==
  pc = "returned" =>
    \A n \in 1..Len(ret) :
      /\ ToUpper(ret[n]) \notin ProgramAbbreviations
      /\ \A k \in 1..Len(ret[n]) : ret[n][k] \notin LowerL

\* the text holds an abbreviation written with a lower-case letter, and a code
\* is returned
C6_MixedCaseAbbreviation ==
  /\ pc = "returned"
  /\ ret # <<>>
  /\ \E p \in 1..Len(arg) :
       /\ CodeEnd(CleanInvigText(arg), p) > p
       /\ SubSeq(CleanInvigText(arg), p, CodeEnd(CleanInvigText(arg), p) - 1)
            \notin ProgramAbbreviations
       /\ ToUpper(SubSeq(CleanInvigText(arg), p, CodeEnd(CleanInvigText(arg), p) - 1))
            \in ProgramAbbreviations

\* the records that list the lookup code
Matching == SelectSeq(duties, LAMBDA duty : ListsCode(duty, invigilator_code))

\* s holds, in ascending order, the n least codes of S (all of S when it has
\* fewer)
LeastCodes(s, S, n) ==
  /\ Len(s) = IF Cardinality(S) < n THEN Cardinality(S) ELSE n
  /\ \A k \in 1..Len(s) : s[k] \in S
  /\ \A k \in 1..(Len(s) - 1) : StrLess(s[k], s[k + 1])
  /\ \A c \in S : (\E k \in 1..Len(s) : s[k] = c) \/ StrLess(s[Len(s)], c)

\* C7: the response of /search is decided in this order: a blank text or a
\* blank code is rejected and nothing is parsed; no record parsed is reported
\* as that; records but none listing the code is reported with the first 20
\* of the sorted distinct codes of all records; otherwise the duties are
\* returned.
C7_OutcomeInOrder ==
  pc = "done" =>
    IF schedule_text = <<>>
    THEN /\ response = [error |-> [text |-> "Please provide the exam schedule text.",
                                   code |-> <<>>]]
         /\ lines = <<>> /\ blocks = <<>> /\ headers = <<>>
    ELSE IF invigilator_code = <<>>
    THEN /\ response = [error |-> [text |-> "Please provide an invigilator code.",
                                   code |-> <<>>]]
         /\ lines = <<>> /\ blocks = <<>> /\ headers = <<>>
    ELSE IF duties = <<>>
    THEN response =
           [error |-> [text |-> "No duties could be parsed from the text. Please check the format.",
                       code |-> <<>>]]
    ELSE IF Matching = <<>>
    THEN /\ DOMAIN response = {"error", "sample_codes"}
         /\ response.error = [text |-> "No duties found for invigilator",
                              code |-> invigilator_code]
         /\ LeastCodes(response.sample_codes, AllInvigilators(duties), 20)
    ELSE /\ DOMAIN response = {"success", "invigilator", "total_duties", "duties"}
         /\ response.success
         /\ response.invigilator = invigilator_code
         /\ response.total_duties = Len(Matching)
         /\ Len(response.duties) = Len(Matching)
         /\ \A n \in 1..Len(Matching) :
              /\ response.duties[n].date = Matching[n].date
              /\ response.duties[n].time = Matching[n].time
              /\ response.duties[n].room = Matching[n].room

\* no record lists the code and the records hold more than 20 distinct codes
C7_SampleCut ==
  /\ pc = "done"
  /\ duties # <<>>
  /\ Matching = <<>>
  /\ Cardinality(AllInvigilators(duties)) > 20

\* the number of the first record after block b
AfterBlock(b) == blocks[b].first + blocks[b].count

\* C8: the records of every block carry the date and the time of the header
\* the loop processed last before the block's course line; records are in
\* the order of their blocks and blocks in the order of their lines; a
\* course line with no header before it has no block, and a text with no
\* Date:/Time: line parses to no record.
C8_MostRecentHeader ==
  /\ \A b \in 1..Len(blocks) :
       /\ HeaderBefore(blocks[b].start) # 0
       /\ blocks[b].date = <<DateTimeMatch(LineAt(HeaderBefore(blocks[b].start)))[1]>>
       /\ blocks[b].time = <<DateTimeMatch(LineAt(HeaderBefore(blocks[b].start)))[2]>>
       /\ \A n \in blocks[b].first..(AfterBlock(b) - 1) :
            /\ duties[n].date = blocks[b].date[1]
            /\ duties[n].time = blocks[b].time[1]
       /\ blocks[b].first = IF b = 1 THEN 1 ELSE AfterBlock(b - 1)
       /\ b > 1 => blocks[b - 1].start < blocks[b].start
  /\ Len(duties) = IF blocks = <<>> THEN 0 ELSE AfterBlock(Len(blocks)) - 1
  /\ (Parsed /\ \A k \in 1..Len(lines) :
                  ~(Contains(lines[k], <<"D", "a", "t", "e", ":">>) /\ Contains(lines[k], <<"T",
                      "i", "m", "e", ":">>)))
       => duties = <<>>

\* a block with records under the second of two headers of different dates
C8_SecondHeader ==
  /\ pc = "parsed"
  /\ \E b \in 1..Len(blocks) :
       /\ blocks[b].count > 0
       /\ \E h \in 1..Len(headers) :
            /\ headers[h] < HeaderBefore(blocks[b].start)
            /\ <<DateTimeMatch(LineAt(headers[h]))[1]>> # blocks[b].date

\* the markers the inner loop tests at line 61
SeparatorMarkers ==
  { <<"-", "-", "-">>, <<"C", "o", "u", "r", "s", "e", " ", "C", "o", "d", "e">>, <<"P", "o",
      "r", "t", " ", "C", "i", "t", "y", " ", "I", "n", "t", "e", "r", "n", "a", "t", "i", "o",
      "n", "a", "l">>, <<"P", "a", "g", "e", " ", "|">> }

\* the non-blank line ends a block: it begins a course code, contains Date:
\* or contains a separator marker
EndsABlock(line) ==
  /\ line # <<>>
  /\ \/ StartsCourse(line)
     \/ Contains(line, <<"D", "a", "t", "e", ":">>)
     \/ \E mk \in SeparatorMarkers : Contains(line, mk)

\* the line is the course line of a block
StartsABlock(k) == \E c \in 1..Len(blocks) : blocks[c].start = k

\* C9, with the markers of line 61: the lines appended to a block are the non-blank lines
\* between its course line and the line that ends it; the block ends at the
\* first non-blank line that begins a course code, contains Date: or contains
\* one of '---', 'Course Code', 'Port City International', 'Page |', or at
\* the end of the text; the main loop goes on at the line that ended the
\* block, so a header there is processed and a course line there starts a
\* block.
C9_BlockAssembly ==
  \A b \in 1..Len(blocks) :
    /\ blocks[b].stop \in (blocks[b].start + 1)..(Len(lines) + 1)
    /\ blocks[b].appended =
         {j \in (blocks[b].start + 1)..(blocks[b].stop - 1) : LineAt(j) # <<>>}
    /\ \A j \in (blocks[b].start + 1)..(blocks[b].stop - 1) : ~EndsABlock(LineAt(j))
    /\ blocks[b].stop <= Len(lines) => EndsABlock(LineAt(blocks[b].stop))
    /\ i >= blocks[b].stop
    /\ (Parsed /\ blocks[b].stop <= Len(lines)
          /\ ~IsBlankOrBoilerplate(LineAt(blocks[b].stop))) =>
         /\ DateTimeMatch(LineAt(blocks[b].stop)) # <<>> =>
              \E h \in 1..Len(headers) : headers[h] = blocks[b].stop
         /\ (DateTimeMatch(LineAt(blocks[b].stop)) = <<>>
               /\ ~IsTableHeader(LineAt(blocks[b].stop))
               /\ CourseMatch(LineAt(blocks[b].stop)) # <<>>) =>
              StartsABlock(blocks[b].stop)

\* a block took in a Rest= line and was ended by a later line
C9_RestLineAppended ==
  /\ pc = "parsed"
  /\ \E b \in 1..Len(blocks) :
       /\ blocks[b].stop <= Len(lines)
       /\ \E j \in blocks[b].appended : Contains(LineAt(j), <<"R", "e", "s", "t", "=">>)

\* the markers the main loop skips at lines 18 and 31
TopLevelMarkers ==
  { <<"P", "o", "r", "t", " ", "C", "i", "t", "y", " ", "I", "n", "t", "e", "r", "n", "a", "t",
      "i", "o", "n", "a", "l", " ", "U", "n", "i", "v", "e", "r", "s", "i", "t", "y">>, <<"D",
      "e", "a", "n", ",", " ", "F", "a", "c", "u", "l", "t", "y">>, <<"U", "p", "d", "a", "t",
      "e", "d", " ", "o", "n">>,
    <<"C", "o", "u", "r", "s", "e", " ", "C", "o", "d", "e">>, <<"C", "o", "u", "r", "s", "e",
        " ", "T", "i", "t", "l", "e">>, <<"P", "r", "o", "g", "r", "a", "m">>, <<"R", "o", "o",
        "m">>, <<"I", "D", " ", "N", "o">>,
    <<"I", "n", "v", "i", "g", "i", "l", "a", "t", "o", "r">>, <<"-", "-", "-">>, <<"R", "e",
        "s", "t", "=">>, <<"P", "a", "g", "e", " ", "|">> }

\* C9, with the markers of lines 18 and 31: a line is appended to a block only if it is non-blank,
\* begins no course code, does not contain Date: and contains none of the
\* markers the main loop skips at top level.
C9_NoTopLevelMarkerAppended ==
  \A b \in 1..Len(blocks) :
    \A j \in blocks[b].appended :
      /\ LineAt(j) # <<>>
      /\ ~StartsCourse(LineAt(j))
      /\ ~Contains(LineAt(j), <<"D", "a", "t", "e", ":">>)
      /\ \A mk \in TopLevelMarkers : ~Contains(LineAt(j), mk)

\* C10: Method 1 yields one record for each match of the room pattern, in
\* order, for the matched room and with the codes extracted from the
\* captured text, empty or not.
C10_OneRecordPerMatch ==
  pc = "returned" =>
    /\ Len(StrategyA) = Len(RoomMatches(BlockText, 1))
    /\ \A n \in 1..Len(StrategyA) :
         /\ StrategyA[n].room = RoomMatches(BlockText, 1)[n][1]
         /\ StrategyA[n].invigilators =
              extract_invigilator_codes(RoomMatches(BlockText, 1)[n][2])

====
